---------------------------- MODULE Spec2Model ----------------------------
(***************************************************************************)
(* A model of chord-generator (src/main.rs): pitch arithmetic, the chord   *)
(* table, the fingering odometer, the inversion generator, the playability *)
(* filters, the scorer and the report assembly of main.                    *)
(*                                                                         *)
(* Spec          main: the root loop, the chord loop, the loop of          *)
(*               gen_inversions one iteration per step, then the filter /  *)
(*               sort / insert pipeline.  The neck is shortened            *)
(*               (MAX_FRETS is 9 in the program) and main walks a prefix   *)
(*               of Note::iter() and of Chord::iter().                     *)
(* SpecNote      Note + u8 applied to every pitch class and every u8.      *)
(* SpecFingering compactness, is_compact, is_contiguous and                *)
(*               fingering_score applied to fingerings over FretSample.    *)
(* SpecAccept    the acceptance test of gen_inversions' loop body applied  *)
(*               to roots, chord qualities, tunings and fingerings.        *)
(***************************************************************************)
EXTENDS Integers, Sequences, FiniteSets, TLC

VARIABLES pc, root, chordIx, t, fingering, inversions, m,
          examined, falseReturns, fn, rhs, ret

vars == <<pc, root, chordIx, t, fingering, inversions, m,
          examined, falseReturns, fn, rhs, ret>>

---------------------------------------------------------------------------
(* Bounds of the model. *)

\* The highest fret of the model's neck.  The program sets MAX_FRETS = 9
\* (main.rs:9); the odometer is the same for any value.
MAX_FRETS == 3

\* main walks the first NumRoots items of Note::iter() ...
NumRoots == 1

\* ... and the first NumChords items of Chord::iter().
NumChords == 6

---------------------------------------------------------------------------
(* Values. *)

\* type Fingering = [Finger; 6], type Tuning = [Note; 6]
NumStrings == 6

Strings == 1..NumStrings

\* Option::None, of Finger(Option<u8>) and of Option<Note>: a value that is
\* no u8.
None == 256

\* enum Note, C = 0 .. B = 11; Note::iter() yields them in this order.
Note == 0..11

U8 == 0..255

\* i8::MAX
I8_MAX == 127

\* u32 values are kept as two 16-bit limbs, hi * 2^16 + lo.
Limb == 2^16

U32Of(hi, lo) == [hi |-> hi, lo |-> lo]

\* (x as u32) for an i8 x: sign extension.
as_u32(x) == IF x >= 0 THEN U32Of(0, x) ELSE U32Of(Limb - 1, Limb + x)

\* a + d on u32 for 0 <= d < 2^16: the wrapped sum and whether it overflowed.
u32_add(a, d) ==
    LET lo == a.lo + d
        hi == a.hi + (IF lo >= Limb THEN 1 ELSE 0)
    IN  [val |-> U32Of(hi % Limb, lo % Limb), ovf |-> hi >= Limb]

\* u32::cmp(a, b) = Less
u32_lt(a, b) == a.hi < b.hi \/ (a.hi = b.hi /\ a.lo < b.lo)

---------------------------------------------------------------------------
(* Pitch arithmetic. *)

\* impl Add<u8> for Note: the u8 sum overflows above 255; a build with
\* overflow checks panics there, a build without wraps the sum modulo 256.
add_overflows(self, r) == self + r > 255

add(self, r) == ((self + r) % 256) % 12

\* impl Add<Finger> for Note
add_finger(self, f) == IF f = None THEN None ELSE add(self, f)

---------------------------------------------------------------------------
(* Chord definitions. *)

\* enum Chord, in declaration order: the order of Chord::iter().
ChordIter ==
    << "Major", "Minor", "Augmented", "Diminished", "Seventh", "MajorSeventh",
       "MinorSeventh", "Sus2", "Sus4", "MinorMajorSeventh",
       "DiminishedSeventh", "MajorNinth", "MinorNinth", "AddNinth",
       "AddEleventh", "MinorSixth", "MajorSixth", "AddSixthAddNinth" >>

Intervals(chord) ==
    CASE chord = "Major"             -> <<0, 4, 7>>
      [] chord = "Minor"             -> <<0, 3, 7>>
      [] chord = "Sus2"              -> <<0, 2, 7>>
      [] chord = "Sus4"              -> <<0, 5, 7>>
      [] chord = "Augmented"         -> <<0, 4, 8>>
      [] chord = "Diminished"        -> <<0, 3, 6>>
      [] chord = "MinorSixth"        -> <<0, 3, 7, 9>>
      [] chord = "MajorSixth"        -> <<0, 4, 7, 9>>
      [] chord = "Seventh"           -> <<0, 4, 7, 10>>
      [] chord = "MajorSeventh"      -> <<0, 4, 7, 11>>
      [] chord = "MinorSeventh"      -> <<0, 3, 7, 10>>
      [] chord = "MinorMajorSeventh" -> <<0, 3, 7, 11>>
      [] chord = "DiminishedSeventh" -> <<0, 3, 6, 9>>
      [] chord = "MajorNinth"        -> <<0, 4, 7, 11, 14>>
      [] chord = "MinorNinth"        -> <<0, 3, 7, 10, 14>>
      [] chord = "AddNinth"          -> <<0, 4, 7, 14>>
      [] chord = "AddEleventh"       -> <<0, 4, 7, 17>>
      [] chord = "AddSixthAddNinth"  -> <<0, 4, 7, 9, 14>>

\* Chord::notes: vec![root, root + i1, root + i2, ...]
notes(chord, r) ==
    LET iv == Intervals(chord)
    IN  [k \in 1..Len(iv) |-> IF k = 1 THEN r ELSE add(r, iv[k])]

\* Mutant: the B string entered a semitone low.
DEFAULT_TUNING_flat_b == <<4, 9, 2, 7, 10, 4>>

DEFAULT_TUNING == <<4, 9, 2, 7, 11, 4>>

---------------------------------------------------------------------------
(* Fingerings. *)

\* impl Into<i8> for Finger
into_i8(f) == IF f = None THEN -1 ELSE IF f > I8_MAX THEN f - 256 ELSE f

\* impl Serialize for Finger, over the six strings of a fingering
serialize(fg) == [i \in Strings |-> into_i8(fg[i])]

AllMuted == [i \in Strings |-> None]

\* Mutant: a string at MAX_FRETS wraps to open instead of muted.
RECURSIVE next_fingering_from_wraps_to_open(_, _)
next_fingering_from_wraps_to_open(fg, i) ==
    IF i = 0 THEN [fingering |-> fg, ret |-> FALSE]
    ELSE IF fg[i] = None
         THEN [fingering |-> [fg EXCEPT ![i] = 0], ret |-> TRUE]
    ELSE IF fg[i] = MAX_FRETS
         THEN next_fingering_from_wraps_to_open([fg EXCEPT ![i] = 0], i - 1)
    ELSE [fingering |-> [fg EXCEPT ![i] = fg[i] + 1], ret |-> TRUE]

\* next_fingering, from string i down to string 1: the fingering it leaves
\* and the value it returns.
RECURSIVE next_fingering_from(_, _)
next_fingering_from(fg, i) ==
    IF i = 0 THEN [fingering |-> fg, ret |-> FALSE]
    ELSE IF fg[i] = None
         THEN [fingering |-> [fg EXCEPT ![i] = 0], ret |-> TRUE]
    ELSE IF fg[i] = MAX_FRETS
         THEN next_fingering_from([fg EXCEPT ![i] = None], i - 1)
    ELSE [fingering |-> [fg EXCEPT ![i] = fg[i] + 1], ret |-> TRUE]

next_fingering(fg) == next_fingering_from(fg, NumStrings)

SetMax(S) == CHOOSE x \in S : \A y \in S : y <= x

SetMin(S) == CHOOSE x \in S : \A y \in S : x <= y

\* compactness: played holds the frets x > 0
compactness(fg) ==
    LET played == {into_i8(fg[i]) : i \in {j \in Strings : into_i8(fg[j]) > 0}}
    IN  IF played = {} THEN I8_MAX ELSE SetMax(played) - SetMin(played)

\* Mutant: the arm for an open string is missing, so it scores as fret 0.
finger_points_no_open_arm(f) == IF f = None THEN 10 ELSE 10 - f

\* One arm of the match in fingering_score.
finger_points(f) == IF f = 0 THEN 15 ELSE IF f = None THEN 10 ELSE 10 - f

\* fingering_score after the first i strings: the wrapped u32 sum and
\* whether an addition overflowed on the way (sum starts at 0, so the first
\* += of the base term cannot overflow).
RECURSIVE fingering_score_upto(_, _)
fingering_score_upto(fg, i) ==
    IF i = 0
    THEN [val |-> as_u32(5 - compactness(fg)), ovf |-> FALSE]
    ELSE LET before == fingering_score_upto(fg, i - 1)
             after  == u32_add(before.val, finger_points(fg[i]))
         IN  [val |-> after.val, ovf |-> before.ovf \/ after.ovf]

fingering_score(fg) == fingering_score_upto(fg, NumStrings).val

fingering_score_overflows(fg) == fingering_score_upto(fg, NumStrings).ovf

\* get_played_notes
get_played_notes(tun, fg) == [i \in Strings |-> add_finger(tun[i], fg[i])]

\* gen_inversions, first check of the loop body
all_played_notes_valid(r, chord, tun, fg) ==
    LET played_notes == get_played_notes(tun, fg)
        cn == notes(chord, r)
    IN  \A i \in Strings :
            played_notes[i] = None \/ \E k \in 1..Len(cn) : cn[k] = played_notes[i]

\* gen_inversions, second check of the loop body
all_chord_notes_are_held(r, chord, tun, fg) ==
    LET played_notes == get_played_notes(tun, fg)
        cn == notes(chord, r)
    IN  \A k \in 1..Len(cn) : \E i \in Strings : played_notes[i] = cn[k]

\* Mutant: the check that every chord note is held is left out.
pushes_without_held_check(r, chord, tun, fg) ==
    all_played_notes_valid(r, chord, tun, fg)

\* gen_inversions: the condition under which the loop body pushes fg
pushes(r, chord, tun, fg) ==
    all_played_notes_valid(r, chord, tun, fg)
        /\ all_chord_notes_are_held(r, chord, tun, fg)

\* Mutant: the limit is inclusive.
is_compact_inclusive(fg) == compactness(fg) <= 4

is_compact(fg) == compactness(fg) < 4

\* is_contiguous, from string i on, in the given zone
RECURSIVE is_contiguous_from(_, _, _)
is_contiguous_from(fg, i, zone) ==
    IF i > NumStrings THEN TRUE
    ELSE IF zone = 0
         THEN is_contiguous_from(fg, i + 1, IF fg[i] # None THEN 1 ELSE 0)
    ELSE IF zone = 1
         THEN is_contiguous_from(fg, i + 1, IF fg[i] = None THEN 2 ELSE 1)
    ELSE FALSE

is_contiguous(fg) == is_contiguous_from(fg, 1, 0)

at_least_four_strings(fg) == Cardinality({i \in Strings : fg[i] # None}) >= 4

---------------------------------------------------------------------------
(* The pipeline of main. *)

\* .filter(is_compact).filter(is_contiguous).filter(at_least_four_strings)
keeps(fg) == is_compact(fg) /\ is_contiguous(fg) /\ at_least_four_strings(fg)

filtered(inv) == SelectSeq(inv, keeps)

\* Mutant: a fingering also sorts before those of equal score.
sorts_before_or_ties(a, b) == ~u32_lt(fingering_score(a), fingering_score(b))

\* the comparator of sorted_by: u32::cmp(&fingering_score(b), &fingering_score(a))
\* is Less, that is a sorts before b
sorts_before(a, b) == u32_lt(fingering_score(b), fingering_score(a))

\* sorted_by is a stable sort: x goes in front of the first item it sorts
\* before, and behind every item it does not.
RECURSIVE insert_sorted(_, _)
insert_sorted(s, x) ==
    IF s = <<>> THEN <<x>>
    ELSE IF sorts_before(x, Head(s)) THEN <<x>> \o s
    ELSE <<Head(s)>> \o insert_sorted(Tail(s), x)

RECURSIVE sorted_by(_)
sorted_by(s) ==
    IF s = <<>> THEN <<>>
    ELSE insert_sorted(sorted_by(SubSeq(s, 1, Len(s) - 1)), s[Len(s)])

---------------------------------------------------------------------------
(* main, one step per loop iteration. *)

Ok(v) == [panic |-> FALSE, val |-> v]

\* A panic returns nothing; val holds a placeholder of the result's type.
Panicked(placeholder) == [panic |-> TRUE, val |-> placeholder]

Init ==
    /\ pc = "root_loop"
    /\ root = 0
    /\ chordIx = 1
    /\ t = DEFAULT_TUNING
    /\ fingering = AllMuted
    /\ inversions = <<>>
    /\ m = <<>>
    /\ examined = 0
    /\ falseReturns = 0
    /\ fn = "main"
    /\ rhs = 0
    /\ ret = Ok(0)

\* for root in Note::iter() { m.insert(root, BTreeMap::new()); ... } and,
\* past the last root, println!
RootLoop ==
    /\ pc = "root_loop"
    /\ IF root < NumRoots
       THEN /\ m' = (root :> <<>>) @@ m
            /\ chordIx' = 1
            /\ pc' = "chord_loop"
       ELSE /\ pc' = "done"
            /\ UNCHANGED <<m, chordIx>>
    /\ UNCHANGED <<root, t, fingering, inversions, examined, falseReturns,
                   fn, rhs, ret>>

\* for chord in Chord::iter(): the call of gen_inversions(root, chord,
\* DEFAULT_TUNING) sets up its locals; past the last chord the root loop
\* goes on.
ChordLoop ==
    /\ pc = "chord_loop"
    /\ IF chordIx <= NumChords
       THEN /\ t' = DEFAULT_TUNING
            /\ fingering' = AllMuted
            /\ inversions' = <<>>
            /\ examined' = 0
            /\ falseReturns' = 0
            /\ pc' = "gen_loop"
            /\ UNCHANGED root
       ELSE /\ root' = root + 1
            /\ pc' = "root_loop"
            /\ UNCHANGED <<t, fingering, inversions, examined, falseReturns>>
    /\ UNCHANGED <<chordIx, m, fn, rhs, ret>>

\* One iteration of the loop of gen_inversions: the two checks, the push,
\* next_fingering and the break.  examined counts the iterations and
\* falseReturns the calls of next_fingering that returned false.
GenLoop ==
    /\ pc = "gen_loop"
    /\ inversions' = IF pushes(root, ChordIter[chordIx], t, fingering)
                     THEN Append(inversions, fingering)
                     ELSE inversions
    /\ LET nf == next_fingering(fingering)
       IN  /\ fingering' = nf.fingering
           /\ falseReturns' = falseReturns + (IF nf.ret THEN 0 ELSE 1)
           /\ pc' = IF nf.ret THEN "gen_loop" ELSE "collect"
    /\ examined' = examined + 1
    /\ UNCHANGED <<root, chordIx, t, m, fn, rhs, ret>>

\* The rest of the chord loop's body: filter, filter, filter, sorted_by,
\* collect, insert.  A score addition that overflows panics in a build with
\* overflow checks and wraps in one without.
Collect ==
    /\ pc = "collect"
    /\ LET kept == filtered(inversions)
           ovf  == Len(kept) > 1
                     /\ \E i \in 1..Len(kept) : fingering_score_overflows(kept[i])
       IN  \E outcome \in (IF ovf THEN {"panic", "wrap"} ELSE {"wrap"}) :
             IF outcome = "panic"
             THEN /\ pc' = "panicked"
                  /\ UNCHANGED <<m, chordIx>>
             ELSE /\ m' = [m EXCEPT ![root] = (ChordIter[chordIx] :> sorted_by(kept)) @@ @]
                  /\ chordIx' = chordIx + 1
                  /\ pc' = "chord_loop"
    /\ UNCHANGED <<root, t, fingering, inversions, examined, falseReturns,
                   fn, rhs, ret>>

Next == RootLoop \/ ChordLoop \/ GenLoop \/ Collect

Spec == Init /\ [][Next]_vars

---------------------------------------------------------------------------
(* The functions on their own: the inputs are drawn in the initial state    *)
(* and one step applies one function.                                       *)

\* Note + u8 on every pitch class and every u8.
InitNote ==
    /\ pc = "call"
    /\ root \in Note
    /\ rhs \in U8
    /\ chordIx = 1
    /\ t = DEFAULT_TUNING
    /\ fingering = AllMuted
    /\ inversions = <<>>
    /\ m = <<>>
    /\ examined = 0
    /\ falseReturns = 0
    /\ fn = "none"
    /\ ret = Ok(0)

Returns(name, results) ==
    /\ pc = "call"
    /\ pc' = "ret"
    /\ fn' = name
    /\ ret' \in results
    /\ UNCHANGED <<root, chordIx, t, fingering, inversions, m, examined,
                   falseReturns, rhs>>

EvalAdd ==
    Returns("add", IF add_overflows(root, rhs)
                   THEN {Panicked(0), Ok(add(root, rhs))}
                   ELSE {Ok(add(root, rhs))})

NextNote == EvalAdd

SpecNote == InitNote /\ [][NextNote]_vars

\* The frets the fingerings of SpecFingering are made of: muted, open, and
\* frets of the program's neck (0..=9) that give the spans 0, 1, 3, 4, 5, 8.
FretSample == {None, 0, 1, 4, 5, 9}

InitFingering ==
    /\ pc = "call"
    /\ fingering \in [Strings -> FretSample]
    /\ root = 0
    /\ rhs = 0
    /\ chordIx = 1
    /\ t = DEFAULT_TUNING
    /\ inversions = <<>>
    /\ m = <<>>
    /\ examined = 0
    /\ falseReturns = 0
    /\ fn = "none"
    /\ ret = Ok(0)

EvalCompactness == Returns("compactness", {Ok(compactness(fingering))})

EvalIsCompact == Returns("is_compact", {Ok(is_compact(fingering))})

EvalIsContiguous == Returns("is_contiguous", {Ok(is_contiguous(fingering))})

EvalFingeringScore ==
    Returns("fingering_score",
            IF fingering_score_overflows(fingering)
            THEN {Panicked(U32Of(0, 0)), Ok(fingering_score(fingering))}
            ELSE {Ok(fingering_score(fingering))})

NextFingering ==
    EvalCompactness \/ EvalIsCompact \/ EvalIsContiguous \/ EvalFingeringScore

SpecFingering == InitFingering /\ [][NextFingering]_vars

\* The inputs of the acceptance test: every root, every chord quality, the
\* default tuning and drop-D, fingerings of muted, open and second fret.
Tunings == {DEFAULT_TUNING, <<2, 9, 2, 7, 11, 4>>}

AcceptFrets == {None, 0, 2}

InitAccept ==
    /\ pc = "call"
    /\ root \in Note
    /\ chordIx \in 1..Len(ChordIter)
    /\ t \in Tunings
    /\ fingering \in [Strings -> AcceptFrets]
    /\ rhs = 0
    /\ inversions = <<>>
    /\ m = <<>>
    /\ examined = 0
    /\ falseReturns = 0
    /\ fn = "none"
    /\ ret = Ok(0)

EvalPushes ==
    Returns("pushes", {Ok(pushes(root, ChordIter[chordIx], t, fingering))})

NextAccept == EvalPushes

SpecAccept == InitAccept /\ [][NextAccept]_vars

---------------------------------------------------------------------------
(* Vocabulary of the properties. *)

SoundedStrings(fg) == {i \in Strings : fg[i] # None}

\* The pitch classes the sounded strings produce.
SoundedPitches(tun, fg) == {(tun[i] + fg[i]) % 12 : i \in SoundedStrings(fg)}

ChordTones(chord, r) == {notes(chord, r)[k] : k \in DOMAIN notes(chord, r)}

\* The frets of the sounded strings, an open string being fret 0.
SoundedFrets(fg) == {fg[i] : i \in SoundedStrings(fg)}

SoundedSpan(fg) == SetMax(SoundedFrets(fg)) - SetMin(SoundedFrets(fg))

\* No muted string lies between two sounded strings.
NoGap(fg) ==
    \A i, j, k \in Strings :
        (i < j /\ j < k) => ~(fg[i] # None /\ fg[j] = None /\ fg[k] # None)

Opens(fg) == Cardinality({i \in Strings : fg[i] = 0})

\* The scoring formula over the integers.
StringTerm(f) == IF f = None THEN 10 ELSE IF f = 0 THEN 15 ELSE 10 - f

RECURSIVE StringTerms(_, _)
StringTerms(fg, i) == IF i = 0 THEN 0 ELSE StringTerms(fg, i - 1) + StringTerm(fg[i])

ExactScore(fg) == (5 - compactness(fg)) + StringTerms(fg, NumStrings)

\* The odometer: a fingering read as a number in base MAX_FRETS + 2, muted
\* being digit 0 and fret x digit x + 1, string 1 the most significant.
Base == MAX_FRETS + 2

RECURSIVE RankUpto(_, _)
RankUpto(fg, i) ==
    IF i = 0 THEN 0
    ELSE RankUpto(fg, i - 1) * Base + (IF fg[i] = None THEN 0 ELSE fg[i] + 1)

Rank(fg) == RankUpto(fg, NumStrings)

Total == Base ^ NumStrings

\* The place of x in s.
Pos(s, x) == CHOOSE i \in 1..Len(s) : s[i] = x

Returned(name) == pc = "ret" /\ fn = name

---------------------------------------------------------------------------
(* C1 *)

\* C1: the loop body of gen_inversions pushes a fingering if and only if the
\* set of pitch classes of its sounded strings equals the set of chord tones
\* (duplicates across strings allowed); the all-muted fingering is never
\* pushed.
C1_PushedIffSameSet ==
    Returned("pushes") =>
        /\ ~ret.panic
        /\ ret.val <=> /\ SoundedPitches(t, fingering) \subseteq ChordTones(ChordIter[chordIx], root)
                       /\ ChordTones(ChordIter[chordIx], root) \subseteq SoundedPitches(t, fingering)
        /\ fingering = AllMuted => ~ret.val

\* An accepted fingering under drop-D with a muted string and a pitch class
\* sounded on more than one string.
C1_Witness ==
    /\ Returned("pushes")
    /\ ret.val
    /\ t # DEFAULT_TUNING
    /\ SoundedStrings(fingering) # Strings
    /\ Cardinality(SoundedStrings(fingering))
         > Cardinality(ChordTones(ChordIter[chordIx], root))

---------------------------------------------------------------------------
(* C2 *)

\* C2: is_contiguous returns true exactly when no muted string lies between
\* two sounded strings (muted prefix, sounded run, muted suffix, each of any
\* length).
C2_ContiguousIffNoGap ==
    Returned("is_contiguous") => (ret.val <=> NoGap(fingering))

---------------------------------------------------------------------------
(* C3 *)

\* C3: with at least one sounded string compactness is the span of the
\* sounded frets, an open string counting as fret 0, and is_compact keeps
\* the fingering exactly when that span is below 4; only a fingering with no
\* sounded string is rejected as unbounded.
C3_SpanOfSoundedFrets ==
    /\ (Returned("compactness") /\ SoundedStrings(fingering) # {})
          => ret.val = SoundedSpan(fingering)
    /\ Returned("is_compact")
          => (ret.val <=> /\ SoundedStrings(fingering) # {}
                          /\ SoundedSpan(fingering) < 4)

---------------------------------------------------------------------------
(* C5 *)

\* C5: for every pitch class p and offset k in 0..=255, p + k returns (never
\* aborts) and equals p + (k mod 12).
C5_AddReducesOffset ==
    Returned("add") =>
        /\ ~ret.panic
        /\ ret.val = (root + (rhs % 12)) % 12

---------------------------------------------------------------------------
(* C6 *)

\* C6: for every fingering, also one that fails the filters, fingering_score
\* is defined and returns the integer (5 - compactness) + the sum of the
\* string terms, the base term not clamped.
C6_ScoreIsTheInteger ==
    Returned("fingering_score") =>
        /\ ~ret.panic
        /\ ret.val = U32Of(0, ExactScore(fingering))

---------------------------------------------------------------------------
(* C10 *)

\* C10: for a fingering that passes is_compact, 5 - compactness is between 2
\* and 5, no addition of fingering_score overflows, every partial sum is the
\* small non-negative integer it stands for, and the u32 returned is the
\* exact value of the scoring formula.
C10_NoWrapWhenCompact ==
    (Returned("fingering_score") /\ is_compact(fingering)) =>
        /\ 5 - compactness(fingering) \in 2..5
        /\ \A i \in 0..NumStrings :
              /\ ~fingering_score_upto(fingering, i).ovf
              /\ fingering_score_upto(fingering, i).val
                    = U32Of(0, (5 - compactness(fingering)) + StringTerms(fingering, i))
        /\ ~ret.panic
        /\ ret.val = U32Of(0, ExactScore(fingering))

\* A compact fingering at the edge of the filter (span 3) has been scored.
C10_Witness ==
    /\ Returned("fingering_score")
    /\ is_compact(fingering)
    /\ compactness(fingering) = 3
    /\ ret = Ok(U32Of(0, ExactScore(fingering)))

---------------------------------------------------------------------------
(* C4 *)

\* C4: from the all-muted fingering the loop of gen_inversions examines the
\* fingerings in odometer order, each once: the fingering examined next is
\* always the one whose rank is the number examined so far; next_fingering
\* returns true on every call but the one made from the all-MAX_FRETS
\* fingering, which returns false, leaves the fingering all-muted and ends the
\* loop after (MAX_FRETS + 2)^6 candidates.
C4_OdometerOnce ==
    /\ pc = "gen_loop" =>
          /\ examined < Total
          /\ Rank(fingering) = examined
          /\ falseReturns = 0
    /\ pc = "collect" =>
          /\ examined = Total
          /\ fingering = AllMuted
          /\ falseReturns = 1

\* The loop has ended after the whole space.
C4_Witness == pc = "collect" /\ examined = Total /\ falseReturns = 1

---------------------------------------------------------------------------
(* C7 *)

\* The sequence stored last: under root and the chord before chordIx.
LastStored == m[root][ChordIter[chordIx - 1]]

JustStored == pc = "chord_loop" /\ chordIx > 1

\* C7: the report has an entry for every root walked and under it one for
\* every chord quality walked; the sequence stored under (root, quality)
\* holds exactly the fingerings gen_inversions returned that pass the three
\* filters, each once, by non-increasing fingering_score, fingerings of equal
\* score in the order gen_inversions produced them.
C7_ReportEntry ==
    /\ JustStored =>
          /\ t = DEFAULT_TUNING
          /\ DOMAIN m[root] = {ChordIter[k] : k \in 1..(chordIx - 1)}
          /\ \A i \in 1..Len(inversions) :
                keeps(inversions[i]) <=> \E j \in 1..Len(LastStored) : LastStored[j] = inversions[i]
          /\ \A j \in 1..Len(LastStored) :
                \E i \in 1..Len(inversions) : inversions[i] = LastStored[j]
          /\ \A i, j \in 1..Len(LastStored) :
                i < j =>
                  /\ LastStored[i] # LastStored[j]
                  /\ ~u32_lt(fingering_score(LastStored[i]), fingering_score(LastStored[j]))
                  /\ fingering_score(LastStored[i]) = fingering_score(LastStored[j])
                        => Pos(inversions, LastStored[i]) < Pos(inversions, LastStored[j])
    /\ pc = "done" =>
          /\ DOMAIN m = 0..(NumRoots - 1)
          /\ \A r \in DOMAIN m : DOMAIN m[r] = {ChordIter[k] : k \in 1..NumChords}

\* An entry has been stored that the filters shortened and in which two
\* fingerings tie.
C7_Witness ==
    /\ JustStored
    /\ Len(LastStored) > 2
    /\ Len(LastStored) < Len(inversions)
    /\ \E i, j \in 1..Len(LastStored) :
          i < j /\ fingering_score(LastStored[i]) = fingering_score(LastStored[j])

---------------------------------------------------------------------------
(* C8 *)

\* The stored sequences.
Entries == UNION {{<<r, c>> : c \in DOMAIN m[r]} : r \in DOMAIN m}

DiffersOnlyByOpens(a, b) == \A k \in Strings : a[k] = b[k] \/ a[k] = 0

---------------------------------------------------------------------------
(* C9 *)

HasCMajor == 0 \in DOMAIN m /\ "Major" \in DOMAIN m[0]

\* C9: under the default tuning the sequence stored for root C and Major
\* holds x32010, serialized [-1, 3, 2, 0, 1, 0].
C9_OpenCMajorStored ==
    HasCMajor =>
        \E j \in 1..Len(m[0]["Major"]) :
            serialize(m[0]["Major"][j]) = <<-1, 3, 2, 0, 1, 0>>

\* The entry for C Major has been stored, from the default tuning.
C9_Witness ==
    /\ HasCMajor
    /\ t = DEFAULT_TUNING
    /\ Len(m[0]["Major"]) > 0
    /\ pc = "chord_loop"
    /\ chordIx = 2

=============================================================================
